---- MODULE Spec2Model ----
(***************************************************************************)
(* get_pv_metadata of element_interface/prairieviewreader.py: the locator  *)
(* of the PrairieView metadata XML, the scalar extraction, the Z-depth     *)
(* resolution in its three schema shapes, and the assembly of the record.  *)
(*                                                                         *)
(* An XML document is modelled by the nodes the function's XPath queries   *)
(* read: the Sequence elements with their Frame children, each Frame's     *)
(* per-frame positionCurrent/ZAxis node with its SubindexedValue entries,  *)
(* the root-level positionCurrent/ZAxis entries, and, per scalar key, the  *)
(* list of matching nodes in document order.  Attribute values are the     *)
(* strings of the XML; numbers are tenths (1.0 is 10).                     *)
(***************************************************************************)
EXTENDS Integers, Sequences, FiniteSets, TLC

VARIABLES dir, pc, root, scalars, branch, n_depths, z_fields, bidirection_z, err, metainfo

vars == <<dir, pc, root, scalars, branch, n_depths, z_fields, bidirection_z, err, metainfo>>

\* Bounds of the model.
MaxFrames == 2
MaxFiles == 2

----------------------------------------------------------------------------
\* Python values: what attrib.get, float, np.float64 and the list
\* comprehensions produce.  One record shape for all of them.

None == [t |-> "NoneType", f |-> 0, s |-> ""]
Str(x) == [t |-> "str", f |-> 0, s |-> x]
Float(n) == [t |-> "float", f |-> n, s |-> ""]
NaN == [t |-> "float", f |-> 0, s |-> "nan"]

PyList(items) == [t |-> "list", items |-> items]
NpScalar(v) == [t |-> "numpy.float64", items |-> <<v>>]
NoValue == [t |-> "unset", items |-> <<>>]

\* The attribute strings of the documents, and the marker of an attribute
\* the element does not carry.
AttrValues == {"1", "1.0", "2"}
NoAttr == ""

\* attrib.get(name): the string, or None when the attribute is absent.
AttribGet(a) == IF a = NoAttr THEN None ELSE Str(a)

\* The number a numeric string denotes, in tenths.
ParseFloat(s) == CASE s = "1" -> 10 [] s = "1.0" -> 10 [] s = "2" -> 20

\* int(s) of a decimal integer string.
ParseInt(s) == CASE s = "1" -> 1 [] s = "2" -> 2 [] s = "3" -> 3 [] s = "4" -> 4

\* The outcome of an expression: its value, or the exception it raises.
Ok(v) == [err |-> "", msg |-> "", val |-> v]
Raise(e) == [err |-> e, msg |-> "", val |-> None]

\* float(v): TypeError on None, the number of the string otherwise.
PyFloat(v) == IF v.t = "NoneType" THEN Raise("TypeError") ELSE Ok(Float(ParseFloat(v.s)))

\* np.float64(v): a 0-d scalar; nan on None.
NpFloat64(v) == IF v.t = "NoneType" THEN NpScalar(NaN) ELSE NpScalar(Float(ParseFloat(v.s)))

\* len(z_fields) of a list, .size of a numpy scalar.
SizeOf(z) == Len(z.items)

----------------------------------------------------------------------------
\* Sequence helpers.

RECURSIVE Flatten(_)
Flatten(ss) == IF Len(ss) = 0 THEN <<>> ELSE Head(ss) \o Flatten(Tail(ss))

Map(F(_), s) == [i \in 1..Len(s) |-> F(s[i])]

Range(s) == {s[i] : i \in 1..Len(s)}

SeqsUpTo(S, n) == UNION {[1..k -> S] : k \in 0..n}

----------------------------------------------------------------------------
\* The XPath queries of the function, on the modelled document.

\* root.find(".//Sequence"): there is a Sequence element.
HasSequence(doc) == Len(doc.seqs) > 0

\* bool(element): an Element is true when it has children.
ElementBool(e) == Len(e.frames) # 0

\* if root.find(".//Sequence"): None is false, an Element is its truth value.
FindSequenceTruthy(doc) == HasSequence(doc) /\ ElementBool(doc.seqs[1])

\* .//Sequence/[@cycle='1']
Cycle1Seqs(doc) == SelectSeq(doc.seqs, LAMBDA q : q.cycle = "1")

\* .//Sequence/[@cycle='1']/Frame, in document order.
Cycle1Frames(doc) == Flatten(Map(LAMBDA q : q.frames, Cycle1Seqs(doc)))

\* .//Sequence/Frame, in document order.
AllFrames(doc) == Flatten(Map(LAMBDA q : q.frames, doc.seqs))

\* <frames>/PVStateShard/PVStateValue/[@key='positionCurrent']/
\* SubindexedValues/[@index='ZAxis']/SubindexedValue, in document order.
FrameZValues(frames) == Flatten(Map(LAMBDA fr : IF fr.hasZ THEN fr.z ELSE <<>>, frames))

\* .//PVStateValue/[@key='positionCurrent']/SubindexedValues/[@index='ZAxis']/
\* SubindexedValue anywhere in the document: the root-level state first, then
\* the per-frame states.
AllZValues(doc) == doc.rootZ \o FrameZValues(AllFrames(doc))

\* A variant that looks at the first frame of cycle 1 only.
IsSinglePlaneFirstFrame(doc) == Len(Cycle1Frames(doc)) = 0 \/ ~Cycle1Frames(doc)[1].hasZ

\* The test of the single-plane branch: find(...) over the frames of cycle 1
\* returns None.
IsSinglePlane(doc) == \A i \in 1..Len(Cycle1Frames(doc)) : ~Cycle1Frames(doc)[i].hasZ

\* .//Sequence/[@cycle='1']/Frame/[@index='1']/.../SubindexedValue
ZControllers(doc) == FrameZValues(SelectSeq(Cycle1Frames(doc), LAMBDA fr : fr.index = "1"))

\* .../SubindexedValue/[@subindex='s'] over the frames of cycle 1.
SubindexValues(doc, s) == SelectSeq(FrameZValues(Cycle1Frames(doc)), LAMBDA z : z.subindex = s)

----------------------------------------------------------------------------
\* Scalar extraction (lines 44-99).  The date, channel and relativeTime
\* attributes are not part of the modelled document.

Keys == {"framePeriod", "scanLinePeriod", "pixelsPerLine", "micronsPerPixel/XAxis",
         "currentScanCenter/XAxis", "currentScanCenter/YAxis"}

\* root.findall(path)[0].attrib.get("value"): IndexError on an empty list,
\* the first match otherwise.
FindallFirst(matches) == IF Len(matches) = 0 THEN Raise("IndexError") ELSE Ok(Str(matches[1]))

\* root.find(path).attrib.get("value"): find returns None when nothing
\* matches, and None has no attrib; the first match otherwise.
FindFirst(matches) == IF Len(matches) = 0 THEN Raise("AttributeError") ELSE Ok(Str(matches[1]))

\* The lookups in the order the function makes them.
Lookups(doc) ==
    << (IF Len(Cycle1Seqs(doc)) = 0 THEN Raise("AttributeError") ELSE Ok(None)),
       FindallFirst(doc.keys["framePeriod"]),
       FindallFirst(doc.keys["scanLinePeriod"]),
       FindallFirst(doc.keys["pixelsPerLine"]),
       FindFirst(doc.keys["micronsPerPixel/XAxis"]),
       FindFirst(doc.keys["currentScanCenter/XAxis"]),
       FindFirst(doc.keys["currentScanCenter/YAxis"]) >>

\* The error of the first lookup that fails, "" when none does.
FirstError(rs) ==
    IF \E i \in 1..Len(rs) : rs[i].err # ""
    THEN rs[CHOOSE i \in 1..Len(rs) : rs[i].err # "" /\ \A j \in 1..(i-1) : rs[j].err = ""].err
    ELSE ""

NoScalars == [num_frames |-> 0, frame_rate |-> 0, usecs_per_line |-> 0, height_in_pixels |-> 0,
              width_in_pixels |-> 0, height_in_um |-> 0, width_in_um |-> 0, fieldX |-> 0, fieldY |-> 0]

\* The scalar locals of a document all of whose lookups succeed.
ScalarsOf(doc) ==
    LET rs == Lookups(doc)
        px == ParseInt(rs[4].val.s)
        um == ParseFloat(rs[5].val.s)
    IN [num_frames |-> Len(AllFrames(doc)),
        frame_rate |-> 100 \div ParseFloat(rs[2].val.s),
        usecs_per_line |-> ParseFloat(rs[3].val.s) * 1000000,
        height_in_pixels |-> px,
        width_in_pixels |-> px,
        height_in_um |-> px * um,
        width_in_um |-> px * um,
        fieldX |-> ParseFloat(rs[6].val.s),
        fieldY |-> ParseFloat(rs[7].val.s)]

----------------------------------------------------------------------------
\* Depth resolution (lines 100-163).

\* float(value) of every entry: the list, or the error of the first float
\* that fails.
FloatList(zs) ==
    LET rs == Map(LAMBDA z : PyFloat(AttribGet(z.value)), zs)
    IN IF FirstError(rs) # "" THEN Raise(FirstError(rs))
       ELSE Ok(Map(LAMBDA r : r.val, rs))

\* z_repeats: one list per controller entry of frame index 1, holding the
\* values of that subindex over the frames of cycle 1.
ZRepeats(doc) == Map(LAMBDA c : FloatList(SubindexValues(doc, c.subindex)), ZControllers(doc))

\* not all(z == z_controller[0] for z in z_controller)
Varies(zs) == ~(\A i \in 1..Len(zs) : zs[i] = zs[1])

\* controller_assert
ControllerAssert(doc) == Map(LAMBDA r : Varies(r.val), ZRepeats(doc))

\* A variant that asserts any(controller_assert).
NumVaryingAny(doc) == IF \E i \in 1..Len(ControllerAssert(doc)) : ControllerAssert(doc)[i] THEN 1 ELSE 0

\* sum(controller_assert)
NumVarying(doc) == Cardinality({i \in 1..Len(ControllerAssert(doc)) : ControllerAssert(doc)[i]})

\* A variant that takes the first controller.
IndexOfFirst(bs) == 1

\* controller_assert.index(True)
IndexOfTrue(bs) == CHOOSE i \in 1..Len(bs) : bs[i] /\ \A j \in 1..(i-1) : ~bs[j]

\* planes and n_depths of the multi-plane branch.
Planes(doc) == Map(LAMBDA fr : ParseInt(fr.index), Cycle1Frames(doc))
\* A variant that counts the frames, len(planes).
NDepthsNoSet(doc) == Len(Planes(doc))

NDepths(doc) == Cardinality(Range(Planes(doc)))

\* A variant that takes the truth value of the attribute string.
BidirectionZTruthy(doc) == AttribGet(doc.seqs[1].bidirectionalZ) \notin {None, Str("")}

\* bidirection_z of the multi-plane branch.
BidirectionZ(doc) == AttribGet(doc.seqs[1].bidirectionalZ) = Str("True")

\* The messages of the two assert statements and of the FileNotFoundError.
ControllerMsg == "Multiple controllers changing z depth is not supported"
LengthMsg == "Number of z fields does not match number of depths."
NotFoundMsg == "No PrarieView metadata XML file found at <parent of pvtiffile>"

\* The single-plane branch: z_fields, or the error.
SinglePlaneZ(doc) ==
    IF Len(AllZValues(doc)) = 0 THEN Raise("AttributeError")
    ELSE Ok(NpFloat64(AttribGet(AllZValues(doc)[1].value)))

\* The multi-controller branch: z_fields, or the error.
MultiControllerZ(doc) ==
    IF FirstError(ZRepeats(doc)) # "" THEN Raise(FirstError(ZRepeats(doc)))
    ELSE IF NumVarying(doc) # 1 THEN [err |-> "AssertionError", msg |-> ControllerMsg, val |-> None]
    ELSE Ok(PyList(ZRepeats(doc)[IndexOfTrue(ControllerAssert(doc))].val))

\* A variant without the subindex predicate.
SingleControllerAllZ(doc) ==
    Ok(PyList(Map(LAMBDA z : AttribGet(z.value), FrameZValues(Cycle1Frames(doc)))))

\* The single-controller branch: z_fields, the strings as they are.
SingleControllerZ(doc) ==
    Ok(PyList(Map(LAMBDA z : AttribGet(z.value), SubindexValues(doc, "0"))))

\* assert len(z_fields) == n_depths
LengthAssert(r, n) ==
    IF r.err = "" /\ SizeOf(r.val) # n THEN [err |-> "AssertionError", msg |-> LengthMsg, val |-> None] ELSE r

----------------------------------------------------------------------------
\* The record.

NoRecord == [num_fields |-> 0, num_planes |-> 0, num_frames |-> 0, num_rois |-> 0,
             frame_rate |-> 0, bidirectional |-> FALSE, bidirectional_z |-> FALSE,
             usecs_per_line |-> 0, height_in_pixels |-> 0, width_in_pixels |-> 0,
             height_in_um |-> 0, width_in_um |-> 0, fieldX |-> 0, fieldY |-> 0,
             fieldZ |-> NoValue]

MetaInfo(sc, nd, bz, zf) ==
    [num_fields |-> 1, num_planes |-> nd, num_frames |-> sc.num_frames, num_rois |-> 0,
     frame_rate |-> sc.frame_rate, bidirectional |-> FALSE, bidirectional_z |-> bz,
     usecs_per_line |-> sc.usecs_per_line, height_in_pixels |-> sc.height_in_pixels,
     width_in_pixels |-> sc.width_in_pixels, height_in_um |-> sc.height_in_um,
     width_in_um |-> sc.width_in_um, fieldX |-> sc.fieldX, fieldY |-> sc.fieldY,
     fieldZ |-> zf]

----------------------------------------------------------------------------
\* The steps of one call.

NoError == [kind |-> "", msg |-> ""]

NoDoc == [seqs |-> <<>>, rootZ |-> <<>>, keys |-> [k \in Keys |-> <<>>]]

\* The for loop over the XML files breaks at the first file whose
\* root.find(".//Sequence") is true.
LocateBreak ==
    /\ pc = "locate"
    /\ \E i \in 1..Len(dir) :
          /\ FindSequenceTruthy(dir[i])
          /\ \A j \in 1..(i-1) : ~FindSequenceTruthy(dir[j])
          /\ root' = dir[i]
    /\ pc' = "extract"
    /\ UNCHANGED <<dir, scalars, branch, n_depths, z_fields, bidirection_z, err, metainfo>>

\* The loop ends without a break: the else clause raises.
LocateElse ==
    /\ pc = "locate"
    /\ \A i \in 1..Len(dir) : ~FindSequenceTruthy(dir[i])
    /\ pc' = "raised"
    /\ err' = [kind |-> "FileNotFoundError", msg |-> NotFoundMsg]
    /\ UNCHANGED <<dir, root, scalars, branch, n_depths, z_fields, bidirection_z, metainfo>>

ExtractScalars ==
    /\ pc = "extract"
    /\ IF FirstError(Lookups(root)) # ""
       THEN /\ pc' = "raised"
            /\ err' = [kind |-> FirstError(Lookups(root)), msg |-> ""]
            /\ UNCHANGED scalars
       ELSE /\ pc' = "resolve"
            /\ scalars' = ScalarsOf(root)
            /\ UNCHANGED err
    /\ UNCHANGED <<dir, root, branch, n_depths, z_fields, bidirection_z, metainfo>>

\* What a branch of the resolver leaves: its locals, or the error.
Resolved(r, n, bz) ==
    IF r.err # ""
    THEN /\ pc' = "raised"
         /\ err' = [kind |-> r.err, msg |-> r.msg]
         /\ UNCHANGED <<n_depths, z_fields, bidirection_z>>
    ELSE /\ pc' = "assemble"
         /\ z_fields' = r.val
         /\ n_depths' = n
         /\ bidirection_z' = bz
         /\ UNCHANGED err

ResolveSinglePlane ==
    /\ pc = "resolve"
    /\ IsSinglePlane(root)
    /\ branch' = "single-plane"
    /\ Resolved(LengthAssert(SinglePlaneZ(root), 1), 1, FALSE)
    /\ UNCHANGED <<dir, root, scalars, metainfo>>

ResolveMultiController ==
    /\ pc = "resolve"
    /\ ~IsSinglePlane(root)
    /\ Len(ZControllers(root)) > 1
    /\ branch' = "multi-controller"
    /\ Resolved(LengthAssert(MultiControllerZ(root), NDepths(root)), NDepths(root), BidirectionZ(root))
    /\ UNCHANGED <<dir, root, scalars, metainfo>>

ResolveSingleController ==
    /\ pc = "resolve"
    /\ ~IsSinglePlane(root)
    /\ ~(Len(ZControllers(root)) > 1)
    /\ branch' = "single-controller"
    /\ Resolved(LengthAssert(SingleControllerZ(root), NDepths(root)), NDepths(root), BidirectionZ(root))
    /\ UNCHANGED <<dir, root, scalars, metainfo>>

Assemble ==
    /\ pc = "assemble"
    /\ metainfo' = MetaInfo(scalars, n_depths, bidirection_z, z_fields)
    /\ pc' = "returned"
    /\ UNCHANGED <<dir, root, scalars, branch, n_depths, z_fields, bidirection_z, err>>

Next ==
    \/ LocateBreak
    \/ LocateElse
    \/ ExtractScalars
    \/ ResolveSinglePlane
    \/ ResolveMultiController
    \/ ResolveSingleController
    \/ Assemble

----------------------------------------------------------------------------
\* The inputs: the XML files of the image file's directory, in scan order.

Subindices == {"0", "1"}
\* The index attributes of the frames: "1" .. str(MaxFrames).
IndexStr(i) == CASE i = 1 -> "1" [] i = 2 -> "2" [] i = 3 -> "3" [] i = 4 -> "4"
FrameIndexValues == {IndexStr(i) : i \in 1..MaxFrames}
NoCtl == "-"

\* The SubindexedValue entries of one ZAxis node: per subindex no entry, an
\* entry without value attribute, or an entry with a value.
EntriesOf(m) ==
    (IF "0" \in DOMAIN m /\ m["0"] # NoCtl THEN << [subindex |-> "0", value |-> m["0"]] >> ELSE <<>>)
    \o (IF "1" \in DOMAIN m /\ m["1"] # NoCtl THEN << [subindex |-> "1", value |-> m["1"]] >> ELSE <<>>)

\* A Frame: its index, and its per-frame ZAxis node when it has one, with
\* entries of the subindices S and values V.
FramesOver(S, V) ==
    {[index |-> i, hasZ |-> FALSE, z |-> <<>>] : i \in FrameIndexValues}
    \cup {[index |-> i, hasZ |-> TRUE, z |-> EntriesOf(m)] :
             i \in FrameIndexValues, m \in [S -> V \cup {NoCtl}]}

Seq1(bz, frames) == [cycle |-> "1", bidirectionalZ |-> bz, frames |-> frames]

DefaultKeys == [k \in Keys |-> << "1" >>]
DefaultRootZ == << [subindex |-> "0", value |-> "2"] >>

\* A Sequence of another cycle, with per-frame Z state of its own.
Cycle2Seq == [cycle |-> "2", bidirectionalZ |-> "True",
              frames |-> << [index |-> "1", hasZ |-> TRUE, z |-> << [subindex |-> "0", value |-> "1"] >>] >>]

\* A document of one cycle-1 Sequence with the frames fs.
DepthDoc(fs) == [seqs |-> << Seq1("False", fs) >>, rootZ |-> DefaultRootZ, keys |-> DefaultKeys]

\* A document that varies the Sequence attributes, a second Sequence before
\* or after the first, and the root-level Z state.
ShapeDoc(pre, post, c, bz, fs, rz) ==
    [seqs |-> pre \o << [cycle |-> c, bidirectionalZ |-> bz, frames |-> fs] >> \o post,
     rootZ |-> rz, keys |-> DefaultKeys]

RootZOpts == {<<>>, DefaultRootZ, << [subindex |-> "0", value |-> NoAttr] >>}

PlainDoc == [seqs |-> << Seq1("False", << [index |-> "1", hasZ |-> FALSE, z |-> <<>>] >>) >>,
             rootZ |-> DefaultRootZ, keys |-> DefaultKeys]

StackDoc == [seqs |-> << Seq1("True",
                 << [index |-> "1", hasZ |-> TRUE, z |-> << [subindex |-> "0", value |-> "1"] >>],
                    [index |-> "2", hasZ |-> TRUE, z |-> << [subindex |-> "0", value |-> "2"] >>] >>) >>,
             rootZ |-> DefaultRootZ, keys |-> DefaultKeys]

\* The nodes matching one scalar key: none, one, or two with different values.
MatchOpts == { <<>>, << "1" >>, << "2", "1" >> }

ScalarDoc(d, ks) == [d EXCEPT !.keys = ks]

\* Files of a directory: an XML file without Sequence, one whose Sequence has
\* no children, one whose first Sequence has none and whose second has, and
\* two metadata files.
LocatorFiles ==
    { NoDoc,
      [NoDoc EXCEPT !.seqs = << Seq1("False", <<>>) >>],
      [PlainDoc EXCEPT !.seqs = << Seq1("False", <<>>) >> \o PlainDoc.seqs],
      PlainDoc,
      StackDoc }

\* The directories the call is made on: directories of up to MaxFiles files;
\* and directories of one metadata file, whose frames take every shape with
\* every value, or with entries that carry no value attribute, or whose
\* Sequence attributes, second Sequence and root-level Z state vary, or whose
\* scalar keys match no, one or two nodes.
InitDir ==
    \/ \E n \in 0..MaxFiles : dir \in [1..n -> LocatorFiles]
    \/ \E n \in 0..MaxFrames : \E fs \in [1..n -> FramesOver(Subindices, AttrValues)] :
          dir = << DepthDoc(fs) >>
    \/ \E n \in 1..MaxFrames : \E fs \in [1..n -> FramesOver(Subindices, {"1", NoAttr})] :
          dir = << DepthDoc(fs) >>
    \/ \E n \in 1..MaxFrames : \E fs \in [1..n -> FramesOver({"0"}, {"1"})] :
       \E pre \in {<<>>, << Cycle2Seq >>}, post \in {<<>>, << Cycle2Seq >>} :
       \E c \in {"1", "2"}, bz \in {"True", "False", NoAttr}, rz \in RootZOpts :
          dir = << ShapeDoc(pre, post, c, bz, fs, rz) >>
    \/ \E d \in {PlainDoc, StackDoc}, ks \in [Keys -> MatchOpts] : dir = << ScalarDoc(d, ks) >>

Init ==
    /\ InitDir
    /\ pc = "locate"
    /\ root = NoDoc
    /\ scalars = NoScalars
    /\ n_depths = 0
    /\ z_fields = NoValue
    /\ bidirection_z = FALSE
    /\ branch = ""
    /\ err = NoError
    /\ metainfo = NoRecord

Spec == Init /\ [][Next]_vars

----------------------------------------------------------------------------
\* The document, as the claims speak of it.

Finished == pc \in {"returned", "raised"}

\* No frame of cycle 1 has a per-frame ZAxis node.
NoFrameHasZ(doc) == \A fr \in Range(Cycle1Frames(doc)) : ~fr.hasZ

\* The first frame of cycle 1 has no per-frame ZAxis node.
FirstFrameHasNoZ(doc) == Len(Cycle1Frames(doc)) = 0 \/ ~Cycle1Frames(doc)[1].hasZ

\* The distinct frame index values of cycle 1.
DistinctIndices(doc) == {fr.index : fr \in Range(Cycle1Frames(doc))}

\* The Z entries of cycle 1 with subindex s, in frame order.
EntriesOfController(doc, s) ==
    LET zs == FrameZValues(Cycle1Frames(doc))
    IN SelectSeq(zs, LAMBDA z : z.subindex = s)

\* The controllers that the frames with index 1 of cycle 1 list.
ListedEntries(doc) ==
    FrameZValues(SelectSeq(Cycle1Frames(doc), LAMBDA fr : fr.index = "1"))
ListedSubindices(doc) == {z.subindex : z \in Range(ListedEntries(doc))}

\* Every entry of a listed controller carries a value.
ListedValuesPresent(doc) ==
    \A s \in ListedSubindices(doc) : \A z \in Range(EntriesOfController(doc, s)) : z.value # NoAttr

\* The numbers a controller reports over the frames of cycle 1.
NumbersOf(doc, s) == [i \in 1..Len(EntriesOfController(doc, s)) |->
                          ParseFloat(EntriesOfController(doc, s)[i].value)]

\* The listed controllers whose numbers are not all equal.
VaryingSubindices(doc) == {s \in ListedSubindices(doc) : Cardinality(Range(NumbersOf(doc, s))) > 1}

IsDisambiguationError(e) == e.kind = "AssertionError" /\ e.msg = ControllerMsg

----------------------------------------------------------------------------
\* C1: in every returned record the number of Z-positions of fieldZ equals
\* num_planes, which is 1 for a single-plane document and the number of
\* distinct frame indices of cycle 1 otherwise; a document whose Z-positions
\* and depths differ in number gets no record.
C1_ZCountEqualsPlanes ==
    pc = "returned" =>
        /\ SizeOf(metainfo.fieldZ) = metainfo.num_planes
        /\ metainfo.num_planes =
              IF NoFrameHasZ(root) THEN 1 ELSE Cardinality(DistinctIndices(root))

C1_Witness ==
    /\ pc = "returned"
    /\ metainfo.num_planes = 2
    /\ SizeOf(metainfo.fieldZ) = 2

\* C2: a multi-plane document whose frames with index 1 of cycle 1 list more
\* than one Z controller (each listed controller's entries carrying values)
\* gets a record only if exactly one listed controller's numbers over the
\* frames of cycle 1 are not all equal; when none or two or more vary the
\* call raises the disambiguation error and returns no record.
C2_ExactlyOneVaries ==
    (Finished /\ branch # "" /\ ~NoFrameHasZ(root) /\ Len(ListedEntries(root)) > 1
        /\ ListedValuesPresent(root)) =>
        /\ pc = "returned" => Cardinality(VaryingSubindices(root)) = 1
        /\ Cardinality(VaryingSubindices(root)) # 1 =>
              pc = "raised" /\ IsDisambiguationError(err)

C2_Witness ==
    /\ pc = "raised"
    /\ branch = "multi-controller"
    /\ ListedValuesPresent(root)
    /\ Cardinality(VaryingSubindices(root)) = 2
    /\ IsDisambiguationError(err)

\* C3, as stated: the acquisition is treated as single-plane exactly when the
\* first frame of cycle 1 has no Z-axis SubindexedValues node, whatever the
\* later frames hold; then num_planes is 1, fieldZ holds one value and
\* bidirectional_z is False.
C3_FirstFrameDecides ==
    branch # "" =>
        /\ branch = "single-plane" <=> FirstFrameHasNoZ(root)
        /\ (pc = "returned" /\ branch = "single-plane") =>
              /\ metainfo.num_planes = 1
              /\ SizeOf(metainfo.fieldZ) = 1
              /\ metainfo.bidirectional_z = FALSE

\* C3, amended: the acquisition is treated as single-plane exactly when no
\* frame of cycle 1 has a Z-axis SubindexedValues node; then num_planes is 1,
\* fieldZ holds one value, the number of the first positionCurrent/ZAxis
\* SubindexedValue of the document (the sequence-level entry, which precedes
\* the per-frame ones), and bidirectional_z is False.
C3_NoFrameDecides ==
    branch # "" =>
        /\ branch = "single-plane" <=> NoFrameHasZ(root)
        /\ (pc = "returned" /\ branch = "single-plane") =>
              /\ metainfo.num_planes = 1
              /\ SizeOf(metainfo.fieldZ) = 1
              /\ metainfo.bidirectional_z = FALSE
              /\ LET first == (root.rootZ \o FrameZValues(AllFrames(root)))[1]
                 IN first.value # NoAttr =>
                       metainfo.fieldZ.items[1] = Float(ParseFloat(first.value))

C3_Witness ==
    /\ pc = "returned"
    /\ branch = "single-plane"
    /\ Len(Cycle1Frames(root)) = 2
    /\ Len(FrameZValues(AllFrames(root))) > 0
    /\ metainfo.fieldZ.items[1] = Float(20)

\* C4, as stated: the locator uses the first XML file of the directory, in
\* scan order, that contains a Sequence element, and raises the not-found
\* error exactly when no XML file of the directory contains one.
C4_FirstFileWithSequence ==
    pc # "locate" =>
        LET with == {i \in 1..Len(dir) : Len(dir[i].seqs) > 0}
        IN /\ (with = {}) <=> (pc = "raised" /\ err.kind = "FileNotFoundError")
           /\ with # {} => root = dir[CHOOSE i \in with : \A j \in with : i <= j]

\* C5, as stated: a record is returned only when each scalar key matches
\* exactly one node; no or several matches make the call fail.
C5_UniqueMatchOrFail ==
    pc = "returned" => \A k \in Keys : Len(root.keys[k]) = 1

\* The error kinds of a failed lookup or conversion.
ExtractionKinds == {"AttributeError", "IndexError", "TypeError"}

\* The Z entries the branch of the resolver reads.
EntriesRead(doc) ==
    IF NoFrameHasZ(doc)
    THEN LET zs == doc.rootZ \o FrameZValues(AllFrames(doc))
         IN IF Len(zs) = 0 THEN <<>> ELSE << zs[1] >>
    ELSE IF Len(ListedEntries(doc)) > 1
         THEN FrameZValues(Cycle1Frames(doc))
         ELSE EntriesOfController(doc, "0")

\* An expected node or attribute is absent from the document.
NodeOrAttributeAbsent(doc) ==
    \/ \E k \in Keys : Len(doc.keys[k]) = 0
    \/ \A q \in Range(doc.seqs) : q.cycle # "1"
    \/ NoFrameHasZ(doc) /\ Len(EntriesRead(doc)) = 0
    \/ \E z \in Range(EntriesRead(doc)) : z.value = NoAttr

\* An invariant of the resolver fails on the document.
ResolverInvariantBroken(doc) ==
    /\ ~NoFrameHasZ(doc)
    /\ \/ Len(ListedEntries(doc)) > 1 /\ Cardinality(VaryingSubindices(doc)) # 1
       \/ Len(EntriesRead(doc)) # Cardinality(DistinctIndices(doc))
       \/ Len(ListedEntries(doc)) > 1 /\ Len(ListedEntries(doc)) # Cardinality(ListedSubindices(doc))

\* C6, as stated: each failure class ends the call with an error of its own
\* kind and without a record: no qualifying XML file with FileNotFoundError,
\* an absent expected node or attribute with an extraction error, a broken
\* resolver invariant with AssertionError.
C6_FailureClasses ==
    Finished =>
        /\ (\A i \in 1..Len(dir) : Len(dir[i].seqs) = 0) =>
              pc = "raised" /\ err.kind = "FileNotFoundError"
        /\ (root # NoDoc /\ NodeOrAttributeAbsent(root)) => pc = "raised"
        /\ (pc = "raised" /\ err.kind \in ExtractionKinds) => NodeOrAttributeAbsent(root)
        /\ (pc = "raised" /\ err.kind = "AssertionError") => ResolverInvariantBroken(root)
        /\ (pc = "raised" /\ err.kind = "FileNotFoundError") => root = NoDoc

\* C7, as stated: the Z-positions of fieldZ are numbers in every returned
\* record, whichever branch produced it (the attribute strings are converted
\* in the single-plane, single-controller and multi-controller branches alike).
C7_NumericSequence ==
    pc = "returned" => \A v \in Range(metainfo.fieldZ.items) : v.t = "float"

\* C8: in every record of the multi-controller branch exactly one listed
\* controller varies and fieldZ is the sequence of the numbers that
\* controller reports over the frames of cycle 1, in frame order; no
\* controller whose numbers are all equal is its source.
C8_VaryingControllerIsSource ==
    (pc = "returned" /\ ~NoFrameHasZ(root) /\ Len(ListedEntries(root)) > 1) =>
        /\ Cardinality(VaryingSubindices(root)) = 1
        /\ \A s \in VaryingSubindices(root) :
              metainfo.fieldZ.items = [i \in 1..Len(NumbersOf(root, s)) |-> Float(NumbersOf(root, s)[i])]
        /\ \A s \in ListedSubindices(root) \ VaryingSubindices(root) :
              metainfo.fieldZ.items # [i \in 1..Len(NumbersOf(root, s)) |-> Float(NumbersOf(root, s)[i])]

C8_Witness ==
    /\ pc = "returned"
    /\ branch = "multi-controller"
    /\ VaryingSubindices(root) = {"1"}
    /\ metainfo.fieldZ.items = << Float(10), Float(20) >>

C10_BidirectionalZ ==
    pc = "returned" =>
        (metainfo.bidirectional_z = TRUE
            <=> (~NoFrameHasZ(root) /\ root.seqs[1].bidirectionalZ = "True"))

C10_Witness ==
    /\ pc = "returned"
    /\ metainfo.bidirectional_z = TRUE
    /\ Len(root.seqs) = 2
    /\ root.seqs[2].bidirectionalZ = "False"

====
